---- MODULE Spec2Model ----
(***************************************************************************)
(* Model of the three maintenance scripts of the repository:               *)
(*   Resources/TestIIIFTiles.py       (IIIF tile grid walker)              *)
(*   Resources/OrthancWSIClearCache.py (WSI cache invalidation client)     *)
(*   Resources/SyncOrthancFolder.py   (parallel source mirror)             *)
(* Each script is a state machine of its own; a behaviour runs one of them *)
(* (SpecTiles, SpecClear, SpecSync) and leaves the others idle.            *)
(***************************************************************************)
EXTENDS Integers, Sequences, FiniteSets, TLC

VARIABLES
  \* ---- TestIIIFTiles.py
  info,          \* the parsed info.json document
  pc,            \* position of the script
  width, height, \* selected full resolution (JSON values)
  tw, th,        \* tile size (JSON values)
  scaleIdx,      \* position of the loop over scaleFactors (1-based)
  countTilesX, countTilesY,
  m, n,          \* row and column of the tile loops
  requests,      \* history: every tile fetch issued, with its status
  stdout,        \* lines printed
  \* ---- OrthancWSIClearCache.py
  argv,          \* sys.argv
  ccPc,          \* position of the script
  instances,     \* the list parsed from GET /instances
  ccInst, ccMeta,\* positions of the loops over instances and METADATA
  http,          \* history: every HTTP request sent, with its status
  ccOut,         \* lines printed
  \* ---- SyncOrthancFolder.py
  task,          \* state of each download command in the pool
  files,         \* targets that exist on disk
  mode,          \* targets whose S_IEXEC bit this run has set (os.chmod)
  syPc,          \* position of the main process
  syExe          \* position of the loop over EXE (1-based)

tilesVars == <<info, pc, width, height, tw, th, scaleIdx, countTilesX,
               countTilesY, m, n, requests, stdout>>
clearVars == <<argv, ccPc, instances, ccInst, ccMeta, http, ccOut>>
syncVars  == <<task, files, mode, syPc, syExe>>
vars      == <<tilesVars, clearVars, syncVars>>

\* ------------------------------------------------------------------------
\* Bounds of the model
\* ------------------------------------------------------------------------
MaxWidth     == 3   \* image widths 1..MaxWidth
MaxHeight    == 2   \* image heights 1..MaxHeight
MaxTile      == 2   \* tile widths and heights 1..MaxTile
MaxScale     == 2   \* scale factors 1..MaxScale
MaxLevels    == 2   \* entries of scaleFactors and of sizes
MaxProfiles  == 2   \* entries of info['tiles']
MaxErrors    == 1   \* non-200 tile responses in one run
MaxInstances == 2   \* instances listed by the server
MaxArgv      == 5   \* len(sys.argv), the script name included
MaxOther     == 1   \* mirrored files that are not in EXE

HTTP_OK  == 200
\* statuses a server answers with
Statuses == {HTTP_OK, 404}

\* All sequences over S of a length in lo..hi.
SeqsOf(S, lo, hi) == UNION { [1..k -> S] : k \in lo..hi }

\* ------------------------------------------------------------------------
\* JSON numbers as Python sees them: an int v, or a float v + 0.5; None is
\* the value of an unset variable.
\* ------------------------------------------------------------------------
PyInt(v)   == [k |-> "int",   v |-> v]
PyFloat(v) == [k |-> "float", v |-> v]
None       == [k |-> "none",  v |-> 0]

\* isinstance(x, int)
IsInstanceInt(x) == x.k = "int"

\* a > b on numbers (twice the value, to stay in the integers)
Twice(x) == 2 * x.v + (IF x.k = "float" THEN 1 ELSE 0)
Greater(a, b) == Twice(a) > Twice(b)

\* Python's // and % (floor division, remainder with the sign of b), b # 0
PyFloorDiv(a, b) == IF b > 0 THEN a \div b ELSE (0 - a) \div (0 - b)
PyMod(a, b) == a - b * PyFloorDiv(a, b)

\* ========================================================================
\* TestIIIFTiles.py
\* ========================================================================

\* ---- the documents the script is run against ---------------------------
Profile(w, h, sf) == [width |-> w, height |-> h, scaleFactors |-> sf]
Size(w, h)        == [width |-> w, height |-> h]
Doc(nProfiles, sizes, profile) ==
  [tiles |-> [i \in 1..nProfiles |-> profile], sizes |-> sizes]

\* One tile profile, positive integers everywhere, one size per scale factor
\* (here the full resolution, repeated).
GridDoc(w, h, a, b, sf) ==
  Doc(1, [i \in 1..Len(sf) |-> Size(PyInt(w), PyInt(h))],
      Profile(PyInt(a), PyInt(b), [i \in 1..Len(sf) |-> PyInt(sf[i])]))

\* An arbitrary list of sizes, in any order, with one tile that covers the image.
SelectionDoc(sizes) ==
  Doc(1, sizes, Profile(PyInt(MaxTile), PyInt(MaxTile),
                        [i \in 1..Len(sizes) |-> PyInt(MaxScale)]))

BadDims   == { PyInt(0), PyFloat(1) }
BadScales == { PyInt(0), PyInt(0 - 1), PyFloat(1) }

\* What may be wrong with a document: nothing, the number of tile profiles, a
\* dimension, a scale factor, the number of sizes.
Fault(kind, i, bad) == [kind |-> kind, i |-> i, bad |-> bad]
Faults ==
       { Fault("none", 0, None) }
  \cup { Fault("profiles", k, None) : k \in (0..MaxProfiles) \ {1} }
  \cup { Fault(f, 0, b) : f \in { "width", "height", "tileWidth", "tileHeight" },
                          b \in BadDims }
  \cup { Fault("scale", i, b) : i \in 1..MaxLevels, b \in BadScales }
  \cup { Fault("fewerSizes", 0, None), Fault("empty", 0, None) }

WithFault(d, f) ==
  LET L == Len(d.sizes)
  IN  CASE f.kind = "profiles"   -> [d EXCEPT !.tiles = [i \in 1..f.i |-> d.tiles[1]]]
        [] f.kind = "width"      ->
             [d EXCEPT !.sizes = [i \in 1..L |-> Size(f.bad, d.sizes[i].height)]]
        [] f.kind = "height"     ->
             [d EXCEPT !.sizes = [i \in 1..L |-> Size(d.sizes[i].width, f.bad)]]
        [] f.kind = "tileWidth"  -> [d EXCEPT !.tiles[1].width = f.bad]
        [] f.kind = "tileHeight" -> [d EXCEPT !.tiles[1].height = f.bad]
        [] f.kind = "scale" /\ f.i <= L ->
             [d EXCEPT !.tiles[1].scaleFactors[f.i] = f.bad]
        [] f.kind = "fewerSizes" -> [d EXCEPT !.sizes = SubSeq(d.sizes, 1, L - 1)]
        [] f.kind = "empty"      ->
             [d EXCEPT !.sizes = <<>>, !.tiles[1].scaleFactors = <<>>]
        [] OTHER -> d

\* The documents the script is run against.
IsDoc(d) ==
  \/ \E w \in 1..MaxWidth, h \in 1..MaxHeight, a \in 1..MaxTile, b \in 1..MaxTile :
       \E sf \in SeqsOf(1..MaxScale, 1, MaxLevels), f \in Faults :
          d = WithFault(GridDoc(w, h, a, b, sf), f)
  \/ \E sizes \in SeqsOf({ Size(PyInt(w), PyInt(h)) :
                             w \in 1..MaxWidth, h \in 1..MaxHeight }, 1, MaxLevels) :
       d = SelectionDoc(sizes)

\* ---- lines 18-24: the size with the largest width -----------------------
RECURSIVE SelectFrom(_, _, _, _)
SelectFrom(sizes, i, w, h) ==
  IF i > Len(sizes) THEN <<w, h>>
  ELSE IF w = None \/ Greater(sizes[i].width, w)
       THEN SelectFrom(sizes, i + 1, sizes[i].width, sizes[i].height)
       ELSE SelectFrom(sizes, i + 1, w, h)

\* the selection without its comparison: the first entry is kept
SelectSizeFirst(sizes) ==
  IF sizes = <<>> THEN <<None, None>> ELSE <<sizes[1].width, sizes[1].height>>

SelectSize(sizes) == SelectFrom(sizes, 1, None, None)

\* the division without its rounding up
CeilingDivisionFloor(a, b) == PyFloorDiv(a, b)

\* the division rounding up even when it is exact
CeilingDivisionExtra(a, b) == PyFloorDiv(a, b) + 1

\* ---- lines 34-38 -------------------------------------------------------
CeilingDivision(a, b) ==
  IF PyMod(a, b) = 0 THEN PyFloorDiv(a, b) ELSE PyFloorDiv(a, b) + 1

\* the region without the clipping at the image edge
TileRegionUnclipped(W, H, TW, TH, s, row, col) ==
  [xr |-> col * TW * s, yr |-> row * TH * s, wr |-> TW * s, hr |-> TH * s]

\* ---- lines 54-61: region /xr,yr,wr,hr/ ---------------------------------
TileRegion(W, H, TW, TH, s, row, col) ==
  LET xr == col * TW * s
      yr == row * TH * s
  IN  [xr |-> xr, yr |-> yr,
       wr |-> IF xr + TW * s > W THEN W - xr ELSE TW * s,
       hr |-> IF yr + TH * s > H THEN H - yr ELSE TH * s]

\* ---- lines 63-69: size /ws,hs/; "/" is Python 3's true division, whose
\* result is the float num/den, and an untouched ws is the int tw ----------
TrueDiv(a, b) == [num |-> a, den |-> b]
Whole(a)      == [num |-> a, den |-> 1]

\* the size without "+ s - 1" in the numerator
TileSizeRoundedDown(W, H, TW, TH, s, xr, yr) ==
  [ws |-> IF xr + TW * s > W THEN TrueDiv(W - xr, s) ELSE Whole(TW),
   hs |-> IF yr + TH * s > H THEN TrueDiv(H - yr, s) ELSE Whole(TH)]

TileSize(W, H, TW, TH, s, xr, yr) ==
  [ws |-> IF xr + TW * s > W THEN TrueDiv(W - xr + s - 1, s) ELSE Whole(TW),
   hs |-> IF yr + TH * s > H THEN TrueDiv(H - yr + s - 1, s) ELSE Whole(TH)]

\* ---- line 71: '%d' of an int or of a float keeps the integral part -----
FormatD(x) ==
  LET q == PyFloorDiv(x.num, x.den)
  IN  IF q < 0 /\ PyMod(x.num, x.den) # 0 THEN q + 1 ELSE q

TileUrl(W, H, TW, TH, s, row, col) ==
  LET r == TileRegion(W, H, TW, TH, s, row, col)
      z == TileSize(W, H, TW, TH, s, r.xr, r.yr)
  IN  [xr |-> r.xr, yr |-> r.yr, wr |-> r.wr, hr |-> r.hr,
       ws |-> FormatD(z.ws), hs |-> FormatD(z.hs)]

\* ---- the script, step by step ------------------------------------------
TilesOnly == UNCHANGED <<argv, ccPc, instances, ccInst, ccMeta, http, ccOut,
                         task, files, mode, syPc, syExe>>
NonOk(reqs) == { i \in 1..Len(reqs) : reqs[i].status # HTTP_OK }

\* lines 74-77
ReportLine(status, url) ==
  <<IF status = HTTP_OK THEN "SUCCESS" ELSE "ERROR", url>>

TilesIdle ==
  /\ info = Doc(0, <<>>, Profile(None, None, <<>>))
  /\ pc = "idle"
  /\ width = None /\ height = None /\ tw = None /\ th = None
  /\ scaleIdx = 0 /\ countTilesX = 0 /\ countTilesY = 0
  /\ m = 0 /\ n = 0
  /\ requests = <<>> /\ stdout = <<>>

InitTiles ==
  /\ IsDoc(info)
  /\ pc = "start"
  /\ width = None /\ height = None /\ tw = None /\ th = None
  /\ scaleIdx = 0 /\ countTilesX = 0 /\ countTilesY = 0
  /\ m = 0 /\ n = 0
  /\ requests = <<>> /\ stdout = <<>>

\* lines 10-13: r = requests.get(...); r.raise_for_status(); info = r.json()
FetchInfo(status) ==
  /\ TilesOnly
  /\ pc = "start"
  /\ pc' = IF status = HTTP_OK THEN "loaded" ELSE "HTTPError"
  /\ UNCHANGED <<info, width, height, tw, th, scaleIdx, countTilesX,
                 countTilesY, m, n, requests, stdout>>

\* lines 15-16
AssertProfile ==
  /\ TilesOnly
  /\ pc = "loaded"
  /\ pc' = IF /\ Len(info.tiles) = 1
              /\ Len(info.tiles[1].scaleFactors) = Len(info.sizes)
           THEN "select" ELSE "AssertionError"
  /\ UNCHANGED <<info, width, height, tw, th, scaleIdx, countTilesX,
                 countTilesY, m, n, requests, stdout>>

\* lines 18-27
SelectSizes ==
  /\ TilesOnly
  /\ pc = "select"
  /\ width'  = SelectSize(info.sizes)[1]
  /\ height' = SelectSize(info.sizes)[2]
  /\ tw' = info.tiles[1].width
  /\ th' = info.tiles[1].height
  /\ pc' = "types"
  /\ UNCHANGED <<info, scaleIdx, countTilesX, countTilesY, m, n, requests, stdout>>

\* lines 29-32
AssertTypes ==
  /\ TilesOnly
  /\ pc = "types"
  /\ IF /\ IsInstanceInt(width) /\ IsInstanceInt(height)
        /\ IsInstanceInt(tw) /\ IsInstanceInt(th)
     THEN pc' = "scale" /\ scaleIdx' = 1
     ELSE pc' = "AssertionError" /\ UNCHANGED scaleIdx
  /\ UNCHANGED <<info, width, height, tw, th, countTilesX, countTilesY,
                 m, n, requests, stdout>>

\* line 40, the loop over the scale factors is exhausted
ScalesDone ==
  /\ TilesOnly
  /\ pc = "scale"
  /\ scaleIdx > Len(info.tiles[1].scaleFactors)
  /\ pc' = "done"
  /\ UNCHANGED <<info, width, height, tw, th, scaleIdx, countTilesX,
                 countTilesY, m, n, requests, stdout>>

\* lines 40-47: the next scale factor, its grid, and the entry of the tile
\* loops (which are skipped when a range is empty)
NextScale ==
  /\ TilesOnly
  /\ pc = "scale"
  /\ scaleIdx <= Len(info.tiles[1].scaleFactors)
  /\ LET s == info.tiles[1].scaleFactors[scaleIdx]
     IN  IF ~IsInstanceInt(s)
         THEN /\ pc' = "AssertionError"
              /\ UNCHANGED <<scaleIdx, countTilesX, countTilesY, m, n, stdout>>
         ELSE IF tw.v * s.v = 0 \/ th.v * s.v = 0
         THEN /\ pc' = "ZeroDivisionError"
              /\ UNCHANGED <<scaleIdx, countTilesX, countTilesY, m, n, stdout>>
         ELSE LET cx == CeilingDivision(width.v, tw.v * s.v)
                  cy == CeilingDivision(height.v, th.v * s.v)
              IN  /\ countTilesX' = cx
                  /\ countTilesY' = cy
                  /\ stdout' = Append(stdout, <<"GRID", tw.v * s.v, th.v * s.v, cx, cy>>)
                  /\ IF cx > 0 /\ cy > 0
                     THEN /\ pc' = "tile" /\ m' = 0 /\ n' = 0
                          /\ UNCHANGED scaleIdx
                     ELSE /\ pc' = "scale" /\ scaleIdx' = scaleIdx + 1
                          /\ m' = (IF cy > 0 THEN cy - 1 ELSE m)
                          /\ UNCHANGED n
  /\ UNCHANGED <<info, width, height, tw, th, requests>>

\* the tile fetch followed by r.raise_for_status(), as the fetch of info.json is
FetchTileRaising(status) ==
  /\ TilesOnly
  /\ pc = "tile"
  /\ status # HTTP_OK => Cardinality(NonOk(requests)) < MaxErrors
  /\ LET s   == info.tiles[1].scaleFactors[scaleIdx].v
         url == TileUrl(width.v, height.v, tw.v, th.v, s, m, n)
     IN  /\ requests' = Append(requests, [level |-> scaleIdx, s |-> s, m |-> m,
                                          n |-> n, url |-> url, status |-> status])
         /\ stdout' = Append(stdout, ReportLine(status, url))
  /\ IF status # HTTP_OK
     THEN pc' = "HTTPError" /\ UNCHANGED <<m, n, scaleIdx>>
     ELSE IF n + 1 < countTilesX
     THEN n' = n + 1 /\ UNCHANGED <<m, pc, scaleIdx>>
     ELSE IF m + 1 < countTilesY
     THEN n' = 0 /\ m' = m + 1 /\ UNCHANGED <<pc, scaleIdx>>
     ELSE pc' = "scale" /\ scaleIdx' = scaleIdx + 1 /\ UNCHANGED <<m, n>>
  /\ UNCHANGED <<info, width, height, tw, th, countTilesX, countTilesY>>

\* lines 54-77: one tile, its fetch and its report, then the next (m, n)
FetchTile(status) ==
  /\ TilesOnly
  /\ pc = "tile"
  /\ status # HTTP_OK => Cardinality(NonOk(requests)) < MaxErrors
  /\ LET s   == info.tiles[1].scaleFactors[scaleIdx].v
         url == TileUrl(width.v, height.v, tw.v, th.v, s, m, n)
     IN  /\ requests' = Append(requests, [level |-> scaleIdx, s |-> s, m |-> m,
                                          n |-> n, url |-> url, status |-> status])
         /\ stdout' = Append(stdout, ReportLine(status, url))
  /\ IF n + 1 < countTilesX
     THEN n' = n + 1 /\ UNCHANGED <<m, pc, scaleIdx>>
     ELSE IF m + 1 < countTilesY
     THEN n' = 0 /\ m' = m + 1 /\ UNCHANGED <<pc, scaleIdx>>
     ELSE pc' = "scale" /\ scaleIdx' = scaleIdx + 1 /\ UNCHANGED <<m, n>>
  /\ UNCHANGED <<info, width, height, tw, th, countTilesX, countTilesY>>

NextTiles ==
  \/ \E status \in Statuses : FetchInfo(status)
  \/ AssertProfile
  \/ SelectSizes
  \/ AssertTypes
  \/ ScalesDone
  \/ NextScale
  \/ \E status \in Statuses : FetchTile(status)

\* ========================================================================
\* OrthancWSIClearCache.py
\* ========================================================================

ArgName(i) ==
  CASE i = 1 -> "OrthancWSIClearCache.py"
    [] i = 2 -> "127.0.0.1"
    [] i = 3 -> "8042"
    [] i = 4 -> "alice"
    [] i = 5 -> "secret"
    [] OTHER -> "extra"

CommandLines == { [i \in 1..k |-> ArgName(i)] : k \in 1..MaxArgv }

InstanceIds == { "inst-a", "inst-b" }

\* lines 43-46
METADATA == << 4200, 4201 >>

\* sys.argv[i] exists (Python indexes from 0)
HasArg(i) == i < Len(argv)

\* lines 50-64: the headers of a request, or the exception raised while
\* building them.  base64.b64encode() of a str raises TypeError in Python 3.
BuildHeaders ==
  IF Len(argv) = 5
  THEN IF HasArg(4) /\ HasArg(5)
       THEN [raised |-> "TypeError", headers |-> <<>>]
       ELSE [raised |-> "IndexError", headers |-> <<>>]
  ELSE [raised |-> "none", headers |-> <<>>]

\* the call with ignore_errors not honoured
RunHttpRequestStrict(uri, method, ignore_errors, status) ==
  LET h == BuildHeaders
  IN  IF h.raised # "none"
      THEN [raised |-> h.raised, sent |-> <<>>]
      ELSE [raised |-> IF status # HTTP_OK THEN "Exception" ELSE "none",
            sent   |-> << [method |-> method, uri |-> uri,
                           host |-> argv[2], port |-> argv[3],
                           headers |-> h.headers, status |-> status] >>]

\* lines 49-76: what one call does for the status the server answers with
\* (a server that answers, a numeric port and a JSON list are taken for
\* granted: a connection error, int() or json.loads() raising are left out):
\* the exception raised ("none": the call returns) and whether it was sent
RunHttpRequest(uri, method, ignore_errors, status) ==
  LET h == BuildHeaders
  IN  IF h.raised # "none"
      THEN [raised |-> h.raised, sent |-> <<>>]
      ELSE [raised |-> IF ~ignore_errors /\ status # HTTP_OK
                       THEN "Exception" ELSE "none",
            sent   |-> << [method |-> method, uri |-> uri,
                           host |-> argv[2], port |-> argv[3],
                           headers |-> h.headers, status |-> status] >>]

ClearOnly == UNCHANGED <<info, pc, width, height, tw, th, scaleIdx, countTilesX,
                         countTilesY, m, n, requests, stdout,
                         task, files, mode, syPc, syExe>>

ClearIdle ==
  /\ argv = <<>> /\ ccPc = "idle" /\ instances = <<>>
  /\ ccInst = 0 /\ ccMeta = 0 /\ http = <<>> /\ ccOut = <<>>

InitClear ==
  /\ argv \in CommandLines
  /\ ccPc = "start" /\ instances = <<>>
  /\ ccInst = 0 /\ ccMeta = 0 /\ http = <<>> /\ ccOut = <<>>

\* lines 30-40
CheckUsage ==
  /\ ClearOnly
  /\ ccPc = "start"
  /\ IF Len(argv) # 3 /\ Len(argv) # 5
     THEN ccPc' = "usage" /\ ccOut' = Append(ccOut, <<"USAGE">>)
     ELSE ccPc' = "list" /\ UNCHANGED ccOut
  /\ UNCHANGED <<argv, instances, ccInst, ccMeta, http>>

\* line 79: the call that lists the instances
ListInstances(status, list) ==
  /\ ClearOnly
  /\ ccPc = "list"
  /\ LET r == RunHttpRequest(<<"instances">>, "GET", FALSE, status)
     IN  /\ http' = http \o r.sent
         /\ IF r.raised # "none"
            THEN ccPc' = r.raised /\ UNCHANGED <<instances, ccInst>>
            ELSE ccPc' = "instance" /\ instances' = list /\ ccInst' = 1
  /\ UNCHANGED <<argv, ccMeta, ccOut>>

\* lines 79-81: the next instance, or line 84 when there is none left
NextInstance ==
  /\ ClearOnly
  /\ ccPc = "instance"
  /\ IF ccInst > Len(instances)
     THEN /\ ccPc' = "done"
          /\ ccOut' = Append(ccOut, <<"The WSI cache was successfully cleared">>)
          /\ UNCHANGED ccMeta
     ELSE /\ ccPc' = "delete"
          /\ ccOut' = Append(ccOut, <<"Clearing cache for instance", instances[ccInst]>>)
          /\ ccMeta' = 1
  /\ UNCHANGED <<argv, instances, ccInst, http>>

\* lines 81-82
DeleteMetadata(status) ==
  /\ ClearOnly
  /\ ccPc = "delete"
  /\ LET r == RunHttpRequest(<<"instances", instances[ccInst], "metadata",
                               METADATA[ccMeta]>>, "DELETE", TRUE, status)
     IN  /\ http' = http \o r.sent
         /\ IF r.raised # "none"
            THEN ccPc' = r.raised /\ UNCHANGED <<ccInst, ccMeta>>
            ELSE IF ccMeta < Len(METADATA)
            THEN ccMeta' = ccMeta + 1 /\ UNCHANGED <<ccPc, ccInst>>
            ELSE ccPc' = "instance" /\ ccInst' = ccInst + 1 /\ UNCHANGED ccMeta
  /\ UNCHANGED <<argv, instances, ccOut>>

NextClear ==
  \/ CheckUsage
  \/ \E status \in Statuses, list \in SeqsOf(InstanceIds, 0, MaxInstances) :
        ListInstances(status, list)
  \/ NextInstance
  \/ \E status \in Statuses : DeleteMetadata(status)

\* ========================================================================
\* SyncOrthancFolder.py
\* ========================================================================

\* line 190
PoolSize == 10

\* lines 14, 17-153: the lists, cut to MaxOther files that are not in EXE;
\* as in the source, every entry of EXE is an entry of FILES.  A command is
\* one task of the pool (the chunks pool.map groups the commands in are not
\* modelled: a command of a chunk that raised is a command never started).
SdkBranch == "Orthanc-1.0.0"    \* 'Orthanc-%s' % PLUGIN_SDK_VERSION
SdkDir    == "Sdk-1.0.0"        \* 'Sdk-%s' % PLUGIN_SDK_VERSION
EXE   == << "Resources/EmbedResources.py", "Resources/WindowsResources.py" >>
FILES == [i \in 1..MaxOther |-> <<"Core", i>>]
         \o [i \in 1..Len(EXE) |-> <<EXE[i], 0>>]
SDK   == << <<"orthanc/OrthancCPlugin.h", 0>> >>

\* os.path.join(TARGET, x)
TargetPath(prefix, f) == <<prefix, f[1], f[2]>>

\* lines 177-187
commands ==
  [i \in 1..Len(FILES) |->
      [branch |-> "default", source |-> <<"", FILES[i][1], FILES[i][2]>>,
       target |-> TargetPath("", FILES[i])]]
  \o
  [i \in 1..Len(SDK) |->
      [branch |-> SdkBranch,
       source |-> <<"Plugins/Include", SDK[i][1], SDK[i][2]>>,
       target |-> TargetPath(SdkDir, SDK[i])]]

Commands == 1..Len(commands)
Targets  == { commands[c].target : c \in Commands }
ExePath(i) == TargetPath("", <<EXE[i], 0>>)

SyncOnly == UNCHANGED <<info, pc, width, height, tw, th, scaleIdx, countTilesX,
                        countTilesY, m, n, requests, stdout,
                        argv, ccPc, instances, ccInst, ccMeta, http, ccOut>>

SyncIdle ==
  /\ task = [c \in Commands |-> "idle"]
  /\ files = {} /\ mode = {} /\ syPc = "idle" /\ syExe = 0

\* The target folder is empty (first run) or holds an earlier mirror.
InitSync ==
  /\ task = [c \in Commands |-> "queued"]
  /\ files \in { {}, Targets }
  /\ mode = {}
  /\ syPc = "map"
  /\ syExe = 0

Running == { c \in Commands : task[c] = "open" }

\* lines 156-170: a worker takes a command and opens its target for writing
DownloadOpen(c) ==
  /\ SyncOnly
  /\ syPc = "map"
  /\ task[c] = "queued"
  /\ Cardinality(Running) < PoolSize
  /\ task' = [task EXCEPT ![c] = "open"]
  /\ files' = files \cup { commands[c].target }
  /\ UNCHANGED <<mode, syPc, syExe>>

\* lines 169-174: open() fails, the exception is printed and raised again
DownloadOpenFails(c) ==
  /\ SyncOnly
  /\ syPc = "map"
  /\ task[c] = "queued"
  /\ Cardinality(Running) < PoolSize
  /\ task' = [task EXCEPT ![c] = "raised"]
  /\ UNCHANGED <<files, mode, syPc, syExe>>

\* line 171: the body is fetched and written
DownloadWrite(c) ==
  /\ SyncOnly
  /\ syPc = "map"
  /\ task[c] = "open"
  /\ task' = [task EXCEPT ![c] = "written"]
  /\ UNCHANGED <<files, mode, syPc, syExe>>

\* lines 171-174: urlopen() or read() fails, the exception is raised again
DownloadTransferFails(c) ==
  /\ SyncOnly
  /\ syPc = "map"
  /\ task[c] = "open"
  /\ task' = [task EXCEPT ![c] = "raised"]
  /\ UNCHANGED <<files, mode, syPc, syExe>>

\* a map that does not wait for the commands still running
MapReturnsEarly ==
  \A c \in Commands : task[c] \in { "open", "written" }

\* pool.map() returns once every command has returned
MapReturns ==
  \A c \in Commands : task[c] = "written"

\* pool.map() raises in the main process what a command raised
MapRaises ==
  \E c \in Commands : task[c] = "raised"

\* line 191
PoolMap ==
  /\ SyncOnly
  /\ syPc = "map"
  /\ \/ MapReturns /\ syPc' = "chmod" /\ syExe' = 1
     \/ MapRaises /\ syPc' = "Exception" /\ UNCHANGED syExe
  /\ UNCHANGED <<task, files, mode>>

\* lines 194-197
Chmod ==
  /\ SyncOnly
  /\ syPc = "chmod"
  /\ IF syExe > Len(EXE)
     THEN syPc' = "done" /\ UNCHANGED <<mode, syExe>>
     ELSE IF ExePath(syExe) \notin files
     THEN syPc' = "OSError" /\ UNCHANGED <<mode, syExe>>
     ELSE mode' = mode \cup { ExePath(syExe) } /\ syExe' = syExe + 1 /\ UNCHANGED syPc
  /\ UNCHANGED <<task, files>>

NextSync ==
  \/ \E c \in Commands : DownloadOpen(c)
  \/ \E c \in Commands : DownloadOpenFails(c)
  \/ \E c \in Commands : DownloadWrite(c)
  \/ \E c \in Commands : DownloadTransferFails(c)
  \/ PoolMap
  \/ Chmod

\* ========================================================================
\* Specifications: one script runs, the other two stay idle
\* ========================================================================
StartTiles == InitTiles /\ ClearIdle /\ SyncIdle
SpecTiles  == StartTiles /\ [][NextTiles]_vars

StartClear == InitClear /\ TilesIdle /\ SyncIdle
SpecClear  == StartClear /\ [][NextClear]_vars

StartSync  == InitSync /\ TilesIdle /\ ClearIdle
SpecSync   == StartSync /\ [][NextSync]_vars

\* ========================================================================
\* Properties of TestIIIFTiles.py (checked under SpecTiles)
\* ========================================================================

\* ceil(a / b) stated without the code: the least q with q * b >= a
IsCeiling(q, a, b) == q * b >= a /\ (q - 1) * b < a
Ceiling(a, b)      == CHOOSE q \in 0..a : IsCeiling(q, a, b)

IsPositiveInt(x) == x.k = "int" /\ x.v > 0

\* The script is past its selection loop (lines 18-27).
Selected == pc \in { "types", "scale", "tile", "done", "ZeroDivisionError" }

\* width, height, tileWidth, tileHeight are positive integers
PositiveDims ==
  /\ IsPositiveInt(width) /\ IsPositiveInt(height)
  /\ IsPositiveInt(tw) /\ IsPositiveInt(th)

ScaleFactors == info.tiles[1].scaleFactors

\* level k of scaleFactors has been walked completely
LevelsDone == 1..(scaleIdx - 1)
TilesOf(k) == { i \in 1..Len(requests) : requests[i].level = k }

InRegion(u, x, y) ==
  /\ u.xr <= x /\ x < u.xr + u.wr
  /\ u.yr <= y /\ y < u.yr + u.hr

\* C1: for positive integer inputs, the regions of a scale's grid partition
\* [0,width) x [0,height): every pixel lies in exactly one region, and no
\* region extends past the image edge.
C1_RegionsPartition ==
  PositiveDims =>
    /\ \A k \in LevelsDone :
         IsPositiveInt(ScaleFactors[k]) =>
           \A x \in 0..(width.v - 1), y \in 0..(height.v - 1) :
             Cardinality({ i \in TilesOf(k) : InRegion(requests[i].url, x, y) }) = 1
    /\ \A i \in 1..Len(requests) :
         LET u == requests[i].url
         IN  /\ 0 <= u.xr /\ u.xr + u.wr <= width.v
             /\ 0 <= u.yr /\ u.yr + u.hr <= height.v

\* a finished grid of at least 2 x 2 tiles whose last column is clipped
C1_Witness ==
  /\ PositiveDims
  /\ \E k \in LevelsDone :
       /\ \E i \in TilesOf(k) : requests[i].m >= 1 /\ requests[i].n >= 1
       /\ \E i \in TilesOf(k) : requests[i].url.wr < tw.v * requests[i].s

GridLines == { i \in 1..Len(stdout) : stdout[i][1] = "GRID" }

\* C2: for positive integer inputs, countTilesX = ceil(width / (tw*s)) and
\* countTilesY = ceil(height / (th*s)), the least q with q*b >= a (read from
\* the line the script prints for each scale).
C2_GridSizeIsCeiling ==
  PositiveDims =>
    \A i \in GridLines :
      (stdout[i][2] > 0 /\ stdout[i][3] > 0) =>
        /\ IsCeiling(stdout[i][4], width.v, stdout[i][2])
        /\ IsCeiling(stdout[i][5], height.v, stdout[i][3])

\* a grid with an inexact division in x (2 columns, the last one clipped) and
\* an exact one in y
C2_Witness ==
  /\ PositiveDims
  /\ \E i \in GridLines :
       /\ stdout[i][2] > 0 /\ stdout[i][3] > 0
       /\ stdout[i][4] = 2 /\ 2 * stdout[i][2] > width.v
       /\ stdout[i][5] * stdout[i][3] = height.v

\* C3: the size emitted in the URL is an integer, tw when the tile is not
\* clipped in x and ceil((width - xr) / s) when it is; likewise in y.
C3_EmittedSize ==
  PositiveDims =>
    \A i \in 1..Len(requests) :
      LET u == requests[i].url
          s == requests[i].s
      IN  /\ u.ws \in Nat /\ u.hs \in Nat
          /\ u.ws = IF u.xr + tw.v * s <= width.v
                    THEN tw.v ELSE Ceiling(width.v - u.xr, s)
          /\ u.hs = IF u.yr + th.v * s <= height.v
                    THEN th.v ELSE Ceiling(height.v - u.yr, s)

\* a clipped tile whose true division is fractional: (width-xr+s-1)/s = k + 1/2
C3_Witness ==
  /\ PositiveDims
  /\ \E i \in 1..Len(requests) :
       LET u == requests[i].url
           s == requests[i].s
       IN  /\ u.xr + tw.v * s > width.v
           /\ s >= 2
           /\ (width.v - u.xr + s - 1) % s # 0

\* C4: for positive integer inputs every tile request has
\* 1 <= outW <= tw, 1 <= outH <= th, 0 < wr <= tw*s, 0 < hr <= th*s.
C4_RequestBounds ==
  PositiveDims =>
    \A i \in 1..Len(requests) :
      LET u == requests[i].url
          s == requests[i].s
      IN  /\ 1 <= u.ws /\ u.ws <= tw.v
          /\ 1 <= u.hs /\ u.hs <= th.v
          /\ 0 < u.wr /\ u.wr <= tw.v * s
          /\ 0 < u.hr /\ u.hr <= th.v * s

\* a second column that is a single pixel wide: region width 1, output width 1
C4_Witness ==
  /\ PositiveDims
  /\ \E i \in 1..Len(requests) :
       /\ requests[i].n >= 1
       /\ requests[i].url.wr = 1 /\ requests[i].url.ws = 1
       /\ tw.v >= 2

\* ---- the order the driving loop is expected to follow -------------------
RowMajor(k, cx, cy) ==
  [i \in 1..(cx * cy) |-> <<k, (i - 1) \div cx, (i - 1) % cx>>]

RECURSIVE ExpectedOrder(_)
ExpectedOrder(k) ==
  IF k = 0 THEN <<>>
  ELSE ExpectedOrder(k - 1)
       \o RowMajor(k, Ceiling(width.v, tw.v * ScaleFactors[k].v),
                      Ceiling(height.v, th.v * ScaleFactors[k].v))

Issued    == [i \in 1..Len(requests) |-> <<requests[i].level, requests[i].m, requests[i].n>>]
IsPrefix(a, b) == Len(a) <= Len(b) /\ a = SubSeq(b, 1, Len(a))

\* the i-th SUCCESS/ERROR line of stdout
RECURSIVE Reports(_)
Reports(out) ==
  IF out = <<>> THEN <<>>
  ELSE IF Head(out)[1] = "GRID" THEN Reports(Tail(out))
       ELSE <<Head(out)>> \o Reports(Tail(out))

ValidDoc ==
  /\ Len(info.tiles) = 1
  /\ Len(info.sizes) >= 1
  /\ Len(ScaleFactors) = Len(info.sizes)
  /\ \A i \in 1..Len(info.sizes) :
       IsPositiveInt(info.sizes[i].width) /\ IsPositiveInt(info.sizes[i].height)
  /\ IsPositiveInt(info.tiles[1].width) /\ IsPositiveInt(info.tiles[1].height)
  /\ \A k \in 1..Len(ScaleFactors) : IsPositiveInt(ScaleFactors[k])

\* C5: for each scale factor in declared order exactly one fetch is issued
\* for every (row, column) of its grid, rows outer and columns inner; a
\* non-200 response is reported as one ERROR line and never stops the run.
C5_EveryTileFetched ==
  /\ Len(Reports(stdout)) = Len(requests)
  /\ \A i \in 1..Len(requests) :
       Reports(stdout)[i] = << IF requests[i].status = HTTP_OK THEN "SUCCESS" ELSE "ERROR",
                               requests[i].url >>
  /\ (ValidDoc /\ Selected) =>
       /\ IsPrefix(Issued, ExpectedOrder(Len(ScaleFactors)))
       /\ pc = "done" => Issued = ExpectedOrder(Len(ScaleFactors))
  /\ ValidDoc => pc \notin { "AssertionError", "ZeroDivisionError" }
  /\ pc = "HTTPError" => requests = <<>>

\* a finished run over two scales whose first tile was answered with an error
C5_Witness ==
  /\ pc = "done" /\ ValidDoc
  /\ Len(ScaleFactors) = 2
  /\ Len(requests) >= 4
  /\ requests[1].status # HTTP_OK
  /\ requests[Len(requests)].level = 2

\* ---- invalid input ------------------------------------------------------
Dimensions ==
  { info.sizes[i].width : i \in 1..Len(info.sizes) }
  \cup { info.sizes[i].height : i \in 1..Len(info.sizes) }
  \cup { info.tiles[i].width : i \in 1..Len(info.tiles) }
  \cup { info.tiles[i].height : i \in 1..Len(info.tiles) }

InvalidInput ==
  \/ Len(info.tiles) # 1
  \/ \E d \in Dimensions : d.k # "int"
  \/ \E d \in Dimensions : d.k = "int" /\ d.v <= 0
  \/ \E i \in 1..Len(info.tiles) : \E k \in 1..Len(info.tiles[i].scaleFactors) :
       LET s == info.tiles[i].scaleFactors[k] IN s.k = "int" /\ s.v <= 0

\* C6: on invalid input (a number of tile profiles other than one, a
\* non-integer or non-positive dimension, a scale factor <= 0) the script
\* fails with an error, issues no tile fetch and never terminates normally.
C6_InvalidInputRejected ==
  (pc # "idle" /\ InvalidInput) => (pc # "done" /\ requests = <<>>)

\* C7: after the selection loop, width >= size['width'] for every entry of
\* info['sizes'], and height is the height of an entry of that width.
C7_MaxWidthSelected ==
  (Selected /\ info.sizes # <<>>) =>
    /\ \A i \in 1..Len(info.sizes) : ~Greater(info.sizes[i].width, width)
    /\ \E i \in 1..Len(info.sizes) :
         info.sizes[i].width = width /\ info.sizes[i].height = height

\* the widest entry is not the first one, and the heights differ
C7_Witness ==
  /\ pc = "types"
  /\ Len(info.sizes) >= 2
  /\ Greater(info.sizes[2].width, info.sizes[1].width)
  /\ info.sizes[2].height # info.sizes[1].height
  /\ width = info.sizes[2].width /\ height = info.sizes[2].height

\* ========================================================================
\* Properties of OrthancWSIClearCache.py (checked under SpecClear)
\* ========================================================================

SuccessLine == <<"The WSI cache was successfully cleared">>
Printed(line) == \E i \in 1..Len(ccOut) : ccOut[i] = line

\* what every request of the four-argument mode is documented to carry
BasicAuthorization == <<"authorization", "Basic", argv[4], argv[5]>>

\* C8: with four arguments (hostname, port, username, password) every HTTP
\* request carries the Basic authorization header and the run proceeds to
\* list the instances and clear the cache as in the two-argument mode.
C8_AuthModeProceeds ==
  Len(argv) = 5 =>
    /\ ccPc \notin { "IndexError", "TypeError" }
    /\ ccPc \in { "instance", "delete", "done", "Exception" } => Len(http) >= 1
    /\ \A i \in 1..Len(http) : http[i].headers = BasicAuthorization

\* the requests of a complete run over list, in order: GET /instances, then
\* DELETE of metadata 4200 and 4201 of each instance
ExpectedUris(list) ==
  [j \in 1..(1 + Len(METADATA) * Len(list)) |->
     IF j = 1 THEN << "GET", <<"instances">> >>
     ELSE <<"DELETE",
            <<"instances", list[((j - 2) \div Len(METADATA)) + 1], "metadata",
              METADATA[((j - 2) % Len(METADATA)) + 1]>> >>]

Sent == [j \in 1..Len(http) |-> <<http[j].method, http[j].uri>>]
Deletes == { j \in 1..Len(http) : http[j].method = "DELETE" }

\* C10: the success message is printed only after GET /instances returned
\* 200 and DELETE was issued for metadata 4200 then 4201 of every listed
\* instance, in list order; no status of a DELETE aborts the run or skips a
\* later DELETE; a non-200 status of GET /instances raises before any DELETE
\* and the message is never printed.
C10_ClearedOnlyAfterAllDeletes ==
  /\ Printed(SuccessLine) =>
       /\ Sent = ExpectedUris(instances)
       /\ http[1].status = HTTP_OK
  /\ ccPc = "done" => Printed(SuccessLine)
  /\ Deletes # {} =>
       /\ http[1].method = "GET" /\ http[1].status = HTTP_OK
       /\ IsPrefix(Sent, ExpectedUris(instances))
       /\ ccPc \in { "instance", "delete", "done" }
  /\ (Len(http) >= 1 /\ http[1].status # HTTP_OK) =>
       /\ ccPc = "Exception"
       /\ Len(http) = 1
       /\ ~Printed(SuccessLine)

\* a finished run over two instances in which a DELETE of the first instance
\* was answered with an error
C10_Witness ==
  /\ ccPc = "done" /\ Printed(SuccessLine)
  /\ Len(instances) = 2
  /\ Len(http) = 5
  /\ http[2].status # HTTP_OK

\* ========================================================================
\* Properties of SyncOrthancFolder.py (checked under SpecSync)
\* ========================================================================

WrittenTargets == { commands[c].target : c \in { d \in Commands : task[d] = "written" } }
ExePaths == { ExePath(i) : i \in 1..Len(EXE) }

\* C9: the executable bit is set only after every download has completed
\* successfully: once a Download has raised no chmod is ever performed, and
\* when the chmod loop runs every EXE path has been written by a download.
C9_ChmodAfterAllDownloads ==
  /\ (mode # {} \/ syPc \in { "chmod", "done" }) =>
       /\ \A c \in Commands : task[c] = "written"
       /\ ExePaths \subseteq WrittenTargets
       /\ ExePaths \subseteq files
  /\ (\E c \in Commands : task[c] = "raised") =>
       /\ mode = {}
       /\ syPc \in { "map", "Exception" }
  /\ mode \subseteq ExePaths
  /\ syPc # "OSError"
  /\ syPc = "done" => mode = ExePaths

\* the run is over and both EXE files are executable
C9_Witness ==
  /\ syPc = "done"
  /\ mode = ExePaths
  /\ \A c \in Commands : task[c] = "written"

====
